---- MODULE Spec2Model ----
(***************************************************************************)
(* VISOR custody monitor: the Timeline Builder (processCustodyData of      *)
(* server.js).  The helper sorts the custody records it is handed, in      *)
(* place, by intake date and derives the CUSTODY / OUT_OF_CUSTODY          *)
(* timeline with its summary fields.                                       *)
(*                                                                         *)
(* JavaScript values are modelled as follows.                              *)
(*   - null / undefined: the record JSNull.                                *)
(*   - an ISO-8601 date string: a record of its fields together with its   *)
(*     textual form ("date" is YYYY-MM-DD, "datetime" is                   *)
(*     YYYY-MM-DDTHH:mm:ssZ); two strings of different form can name the   *)
(*     same instant and are still different strings.                       *)
(*   - a Number holding milliseconds: the pair [d, r] standing for         *)
(*     d * MsPerDay + r with 0 <= r < MsPerDay.  A JavaScript Number is    *)
(*     exact up to 2^53, TLC's integers stop at 2^31 (25 days of           *)
(*     milliseconds), so the value is kept in two limbs.                   *)
(***************************************************************************)
EXTENDS Integers, Sequences, FiniteSets, TLC

VARIABLES
    iicId,        \* the id argument of processCustodyData
    custodyData,  \* the array handed to processCustodyData (sorted in place)
    received,     \* the array as it was received, before the call
    result,       \* what the call produced: nothing yet, a return value or a throw
    pc,           \* "call" before processCustodyData runs, "done" after; in a
                  \* request: "request", "awaitApi", "awaitPage", "sent"
    fetched,      \* the remote endpoints the request has fetched, in order
    apiReply,     \* what the remote answered to the API fetch
    pageReply,    \* what the remote answered to the page fetch
    sent          \* the responses the request has sent, in order

vars == <<iicId, custodyData, received, result, pc, fetched, apiReply, pageReply, sent>>

\* the variables of a request
requestVars == <<fetched, apiReply, pageReply, sent>>

-----------------------------------------------------------------------------
(* Bounds of the model *)

MaxRecords == 3

-----------------------------------------------------------------------------
(* JavaScript values *)

JSNull == [isNull |-> TRUE]

\* !v for the values a date or name field can hold (null, undefined, "" are falsy)
Falsy(v) == v = JSNull

MsPerSecond == 1000
MsPerMinute == 1000 * 60
MsPerHour == 1000 * 60 * 60
MsPerDay == 1000 * 60 * 60 * 24

Num(d, r) == [d |-> d, r |-> r]

NumZero == Num(0, 0)

\* a - b on Numbers
NumSub(a, b) ==
    IF a.r - b.r >= 0
    THEN Num(a.d - b.d, a.r - b.r)
    ELSE Num(a.d - b.d - 1, a.r - b.r + MsPerDay)

\* x > 0 and x < 0 on Numbers
NumPositive(x) == x.d > 0 \/ (x.d = 0 /\ x.r > 0)
NumNegative(x) == x.d < 0

\* Math.floor(x / c) for x >= 0 and a divisor c of MsPerDay
NumFloorDiv(x, c) == x.d * (MsPerDay \div c) + (x.r \div c)

\* x % c for x >= 0 and a divisor c of MsPerDay
NumMod(x, c) == x.r % c

\* an ISO-8601 string
IsoDate(y, m, d) ==
    [form |-> "date", y |-> y, m |-> m, d |-> d, h |-> 0, mi |-> 0, s |-> 0]
IsoDateTime(y, m, d, h, mi, s) ==
    [form |-> "datetime", y |-> y, m |-> m, d |-> d, h |-> h, mi |-> mi, s |-> s]

\* a calendar without leap days
DaysFromCivil_noLeap(y, m, d) ==
    LET yy  == IF m <= 2 THEN y - 1 ELSE y
        mp  == IF m > 2 THEN m - 3 ELSE m + 9
        doy == ((153 * mp + 2) \div 5) + d - 1
    IN  yy * 365 + doy - 719468

\* days from 1970-01-01 to the civil date y-m-d (proleptic Gregorian calendar)
DaysFromCivil(y, m, d) ==
    LET yy  == IF m <= 2 THEN y - 1 ELSE y
        era == yy \div 400
        yoe == yy - era * 400
        mp  == IF m > 2 THEN m - 3 ELSE m + 9
        doy == ((153 * mp + 2) \div 5) + d - 1
        doe == yoe * 365 + (yoe \div 4) - (yoe \div 100) + doy
    IN  era * 146097 + doe - 719468

\* new Date(s).getTime() for an ISO-8601 string s (both forms are UTC)
ParseDate(s) ==
    Num(DaysFromCivil(s.y, s.m, s.d),
        ((s.h * 60 + s.mi) * 60 + s.s) * MsPerSecond)

\* new Date(v).getTime(): new Date(null) is the epoch
newDate(v) == IF v = JSNull THEN NumZero ELSE ParseDate(v)

-----------------------------------------------------------------------------
(* Inputs *)

Names == {"A", "B"}
Facilities == {"OSP"}

Dec31 == IsoDateTime(1969, 12, 31, 23, 30, 0)
Jan01 == IsoDate(1970, 1, 1)
Jan02 == IsoDateTime(1970, 1, 2, 1, 1, 1)

IntakeDates == {JSNull, Dec31, Jan02}
ReleaseDates == {JSNull, Dec31, Jan01}

IicIds == {"0a0f8f3e-3238-4e5b-a3a2-0083580416df"}

\* what new Date().toISOString() can read off the clock during a call
Clock == {"2026-01-01T00:00:00.000Z", "2026-01-01T00:00:01.000Z"}

\* the objects of the remote data array
RawCustodyRecord ==
    [idoc_name : Names, idoc_facilityid : Facilities,
     savin_intakedate : IntakeDates, idoc_releasedate : ReleaseDates]

\* what an element of the parsed JSON array can be: a record or null
Elements == RawCustodyRecord \cup {JSNull}

SeqsUpTo(S, n) == UNION {[1..k -> S] : k \in 0..n}

-----------------------------------------------------------------------------
(* processCustodyData *)

TypeError == [kind |-> "throw", error |-> "TypeError"]

\* new Date(a.savin_intakedate || 0) as a Number
dateOf(a) ==
    IF Falsy(a.savin_intakedate) THEN NumZero ELSE newDate(a.savin_intakedate)

\* the comparator handed to sort: dateA - dateB
compare(a, b) == NumSub(dateOf(a), dateOf(b))

\* a sort that puts an element before the elements it compares equal to
RECURSIVE insert_beforeEqual(_, _)
insert_beforeEqual(sorted, x) ==
    IF sorted = <<>> THEN <<x>>
    ELSE IF ~NumNegative(compare(Head(sorted), x))
         THEN <<x>> \o sorted
         ELSE <<Head(sorted)>> \o insert_beforeEqual(Tail(sorted), x)

\* Array.prototype.sort is stable (ECMAScript 2019): an element goes behind
\* every element that does not compare greater than it
RECURSIVE insert(_, _)
insert(sorted, x) ==
    IF sorted = <<>> THEN <<x>>
    ELSE IF NumPositive(compare(Head(sorted), x))
         THEN <<x>> \o sorted
         ELSE <<Head(sorted)>> \o insert(Tail(sorted), x)

\* an insertion sort that shifts the greater element up and does not store
\* the element it moves
RECURSIVE sort_shift(_)
sort_shift(arr) ==
    IF Len(arr) <= 1 THEN arr
    ELSE LET s == sort_shift(SubSeq(arr, 1, Len(arr) - 1))
             x == arr[Len(arr)]
         IN  IF NumPositive(compare(s[Len(s)], x))
             THEN Append(s, s[Len(s)])
             ELSE Append(s, x)

RECURSIVE sort(_)
sort(arr) ==
    IF arr = <<>> THEN <<>>
    ELSE insert(sort(SubSeq(arr, 1, Len(arr) - 1)), arr[Len(arr)])

\* with two or more elements every element is handed to the comparator
sortThrows(arr) == Len(arr) >= 2 /\ \E i \in 1..Len(arr) : arr[i] = JSNull

\* currentlyInCustody taken from the presence of the release date
custodyEntry_released(record) ==
    [type |-> "CUSTODY",
     offenderNumber |-> record.idoc_name,
     facility |-> record.idoc_facilityid,
     intakeDate |-> record.savin_intakedate,
     releaseDate |-> record.idoc_releasedate,
     currentlyInCustody |-> ~Falsy(record.idoc_releasedate)]

custodyEntry(record) ==
    [type |-> "CUSTODY",
     offenderNumber |-> record.idoc_name,
     facility |-> record.idoc_facilityid,
     intakeDate |-> record.savin_intakedate,
     releaseDate |-> record.idoc_releasedate,
     currentlyInCustody |-> Falsy(record.idoc_releasedate)]

days(gapMs) == NumFloorDiv(gapMs, MsPerDay)
\* the hours of the whole gap, days included
hours_total(gapMs) == NumFloorDiv(gapMs, MsPerHour)

hours(gapMs) == NumMod(gapMs, MsPerDay) \div MsPerHour
minutes(gapMs) == NumMod(gapMs, MsPerHour) \div MsPerMinute

\* startDate and endDate exchanged
gapEntry_swappedDates(record, nextRecord, gapMs) ==
    [type |-> "OUT_OF_CUSTODY",
     durationMs |-> gapMs,
     days |-> days(gapMs),
     hours |-> hours(gapMs),
     minutes |-> minutes(gapMs),
     startDate |-> nextRecord.savin_intakedate,
     endDate |-> record.idoc_releasedate]

gapEntry(record, nextRecord, gapMs) ==
    [type |-> "OUT_OF_CUSTODY",
     durationMs |-> gapMs,
     days |-> days(gapMs),
     hours |-> hours(gapMs),
     minutes |-> minutes(gapMs),
     startDate |-> record.idoc_releasedate,
     endDate |-> nextRecord.savin_intakedate]

\* gapMs >= 0 in place of gapMs > 0
gapEmitted_nonNegative(gapMs) == ~NumNegative(gapMs)

\* the gap test of one loop iteration: gapMs > 0
gapEmitted(gapMs) == NumPositive(gapMs)

\* the loop without its test of nextRecord.savin_intakedate
gapAfter_noIntakeTest(data, i) ==
    LET record == data[i]
    IN  IF i < Len(data) /\ ~Falsy(record.idoc_releasedate)
        THEN LET nextRecord == data[i + 1]
                 releaseTime == newDate(record.idoc_releasedate)
                 nextIntakeTime == newDate(nextRecord.savin_intakedate)
                 gapMs == NumSub(nextIntakeTime, releaseTime)
             IN  IF gapEmitted(gapMs)
                 THEN <<gapEntry(record, nextRecord, gapMs)>>
                 ELSE <<>>
        ELSE <<>>

\* the gap that iteration i pushes behind its custody entry, if any
gapAfter(data, i) ==
    LET record == data[i]
    IN  IF i < Len(data) /\ ~Falsy(record.idoc_releasedate)
        THEN LET nextRecord == data[i + 1]
             IN  IF ~Falsy(nextRecord.savin_intakedate)
                 THEN LET releaseTime == newDate(record.idoc_releasedate)
                          nextIntakeTime == newDate(nextRecord.savin_intakedate)
                          gapMs == NumSub(nextIntakeTime, releaseTime)
                      IN  IF gapEmitted(gapMs)
                          THEN <<gapEntry(record, nextRecord, gapMs)>>
                          ELSE <<>>
                 ELSE <<>>
        ELSE <<>>

\* the gap pushed before the custody entry
pushed_gapFirst(data, i) == gapAfter(data, i) \o <<custodyEntry(data[i])>>

\* what iteration i of the loop pushes
pushed(data, i) == <<custodyEntry(data[i])>> \o gapAfter(data, i)

RECURSIVE processedRecords(_, _)
processedRecords(data, i) ==
    IF i > Len(data) THEN <<>>
    ELSE pushed(data, i) \o processedRecords(data, i + 1)

\* the loop reads record.idoc_name: a null element throws
loopThrows(data) == \E i \in 1..Len(data) : data[i] = JSNull

\* the summary taken from the first record
summaryInCustody_first(data) ==
    Len(data) > 0 /\ Falsy(data[1].idoc_releasedate)

\* the summary without its length test
summaryInCustody_unguarded(data) ==
    Len(data) = 0 \/ Falsy(data[Len(data)].idoc_releasedate)

summaryInCustody(data) ==
    Len(data) > 0 /\ Falsy(data[Len(data)].idoc_releasedate)

\* the call: the array after it and what it produced; now is the clock
\* reading of new Date().toISOString()
processCustodyData(id, data, now) ==
    IF sortThrows(data) THEN [data |-> data, outcome |-> TypeError]
    ELSE LET sorted == sort(data)
         IN  IF loopThrows(sorted) THEN [data |-> sorted, outcome |-> TypeError]
             ELSE [data |-> sorted,
                   outcome |-> [kind |-> "return",
                                iicId |-> id,
                                totalRecords |-> Len(sorted),
                                records |-> processedRecords(sorted, 1),
                                retrievedAt |-> now,
                                currentlyInCustody |-> summaryInCustody(sorted)]]

-----------------------------------------------------------------------------
(* The state machine *)

NoResult == [kind |-> "none"]
NoReply == [kind |-> "none"]

\* processCustodyData called on its own: no request is under way
NoRequest ==
    /\ fetched = <<>>
    /\ apiReply = NoReply
    /\ pageReply = NoReply
    /\ sent = <<>>

Init ==
    /\ iicId \in IicIds
    /\ custodyData \in SeqsUpTo(Elements, MaxRecords)
    /\ received = custodyData
    /\ result = NoResult
    /\ pc = "call"
    /\ NoRequest

ProcessCustodyData ==
    /\ pc = "call"
    /\ \E now \in Clock :
          LET r == processCustodyData(iicId, custodyData, now)
          IN  /\ custodyData' = r.data
              /\ result' = r.outcome
    /\ pc' = "done"
    /\ UNCHANGED <<iicId, received>>
    /\ UNCHANGED requestVars

Next == ProcessCustodyData

Spec == Init /\ [][Next]_vars

-----------------------------------------------------------------------------
(* The scenario of the specification: records of the year 2020 *)

Y2020Jan01 == IsoDate(2020, 1, 1)
Y2020Feb01 == IsoDate(2020, 2, 1)
Y2020Mar01 == IsoDate(2020, 3, 1)

ScenarioRecords ==
    [idoc_name : Names, idoc_facilityid : Facilities,
     savin_intakedate : {Y2020Jan01, Y2020Mar01},
     idoc_releasedate : {JSNull, Y2020Feb01}]

InitScenario ==
    /\ iicId \in IicIds
    /\ custodyData \in SeqsUpTo(ScenarioRecords, MaxRecords)
    /\ received = custodyData
    /\ result = NoResult
    /\ pc = "call"
    /\ NoRequest

SpecScenario == InitScenario /\ [][Next]_vars

-----------------------------------------------------------------------------
(* Records whose intake date may be absent or the epoch itself *)

OrderRecords ==
    [idoc_name : Names, idoc_facilityid : Facilities,
     savin_intakedate : {JSNull, Dec31, Jan01, Jan02},
     idoc_releasedate : {JSNull, Jan01}]

InitOrder ==
    /\ iicId \in IicIds
    /\ custodyData \in SeqsUpTo(OrderRecords, MaxRecords)
    /\ received = custodyData
    /\ result = NoResult
    /\ pc = "call"
    /\ NoRequest

SpecOrder == InitOrder /\ [][Next]_vars

-----------------------------------------------------------------------------
(* The remote source, as the custody-history request sees it *)

\* the characters /[a-f0-9-]/i accepts; an id is a sequence of characters
IdChars ==
    {"0", "1", "2", "3", "4", "5", "6", "7", "8", "9",
     "a", "b", "c", "d", "e", "f", "A", "B", "C", "D", "E", "F", "-"}
IdLength == 36

\* a pattern without its anchors: 36 accepted characters anywhere in the id
validId_unanchored(id) ==
    \E k \in 0..(Len(id) - IdLength) :
        \A i \in (k + 1)..(k + IdLength) : id[i] \in IdChars

\* /^[a-f0-9-]{36}$/i.test(iicId)
validId(id) ==
    Len(id) = IdLength /\ \A i \in 1..Len(id) : id[i] \in IdChars

GoodId ==
    [i \in 1..36 |->
        IF i \in {9, 14, 19, 24} THEN "-"
        ELSE IF i % 3 = 0 THEN "F" ELSE IF i % 3 = 1 THEN "0" ELSE "a"]
Not36Chars == <<"n", "o", "t", "-", "3", "6", "-", "c", "h", "a", "r", "s">>

RequestIds ==
    {GoodId,
     [i \in 1..36 |-> "-"],
     [i \in 1..35 |-> "a"],
     [i \in 1..37 |-> "a"],
     [GoodId EXCEPT ![5] = "g"],
     Not36Chars}

RecA ==
    [idoc_name |-> "A", idoc_facilityid |-> "OSP",
     savin_intakedate |-> Dec31, idoc_releasedate |-> Jan01]
RecB ==
    [idoc_name |-> "B", idoc_facilityid |-> "OSP",
     savin_intakedate |-> Jan02, idoc_releasedate |-> JSNull]
\* an object whose idoc_name is empty
Nameless ==
    [idoc_name |-> "", idoc_facilityid |-> "OSP",
     savin_intakedate |-> Jan02, idoc_releasedate |-> JSNull]

\* a JSON array in a remote body, and Array.isArray
Arr(seq) == [array |-> seq]
IsArray(v) == "array" \in DOMAIN v

\* the arrays the remote data can hold
Payloads ==
    {Arr(<<>>), Arr(<<RecA>>), Arr(<<RecB, RecA>>), Arr(<<RecA, Nameless>>),
     Arr(<<Nameless, RecA>>), Arr(<<RecA, JSNull>>), Arr(<<JSNull>>)}

\* a fetch that rejects, and one that resolves with a response
Rejected == [kind |-> "reject", message |-> "network failure"]
Responded(status, body) == [kind |-> "response", status |-> status, body |-> body]

\* response.ok
ok(reply) == reply.status \in 200..299

\* a body that is no JSON
BadJson == [syntax |-> "invalid"]

SubgridId == "b53c668f-4840-4868-8182-1c0ac0c19dc6"
FormId == "05961a64-abec-4cc9-8946-9e376699b0e9"

SubgridField(data) ==
    [controlDataId |-> SubgridId, gridResponse |-> [data |-> data]]
OtherField == [controlDataId |-> FormId, gridResponse |-> JSNull]

FieldResponseLists ==
    {<<>>, <<OtherField>>}
        \cup {<<OtherField, SubgridField(x)>> : x \in Payloads \cup {JSNull}}

\* the bodies of the GetFormFieldValues API
ApiBodies ==
    {BadJson, JSNull, [fieldResponses |-> JSNull]}
        \cup {[fieldResponses |-> Arr(frs)] : frs \in FieldResponseLists}

ApiReplies ==
    {Rejected, Responded(503, JSNull)} \cup {Responded(200, b) : b \in ApiBodies}

\* the text a pattern captures: a JSON text, plain or with &quot; escapes
Text(json, quoted) == [json |-> json, quoted |-> quoted]
NoMatch == [nomatch |-> TRUE]

Captures ==
    {NoMatch, Text(BadJson, FALSE), Text(Arr(<<RecB, RecA>>), TRUE)}
        \cup {Text(x, FALSE) :
                 x \in {Arr(<<>>), Arr(<<RecA>>), Arr(<<RecA, Nameless>>),
                        Arr(<<Nameless, RecA>>), Arr(<<RecA, JSNull>>),
                        Arr(<<JSNull>>)}}

PatternCount == 4

\* a page: what each of the patterns captures in it
HtmlPages == [1..PatternCount -> Captures]

PageReplies ==
    {Rejected, Responded(503, JSNull)} \cup {Responded(200, h) : h \in HtmlPages}

-----------------------------------------------------------------------------
(* extractCustodyDataFromHTML *)

SyntaxError == [kind |-> "throw", error |-> "SyntaxError"]
Return(v) == [kind |-> "return", value |-> v]

\* a strategy that ends without a result: the next one is tried
Continue == [kind |-> "continue"]

\* the replace calls: &quot; becomes "
unescape(text) ==
    IF text.quoted THEN Text(text.json, FALSE) ELSE text

\* JSON.parse(jsonStr): the value, or a SyntaxError
JSONparse(text) ==
    IF text.quoted \/ text.json = BadJson THEN SyntaxError ELSE Return(text.json)

\* Array.isArray(data) && data.length > 0 && data[0].idoc_name, without the
\* tests of the length and of the first element
accepted_anyArray(data) ==
    IF IsArray(data) THEN Return(data) ELSE Continue

\* lines 359-362: Array.isArray(data) && data.length > 0 && data[0].idoc_name;
\* reading idoc_name of a null first element throws
accepted(data) ==
    IF ~IsArray(data) \/ Len(data.array) = 0 THEN Continue
    ELSE IF data.array[1] = JSNull THEN TypeError
    ELSE IF data.array[1].idoc_name # "" THEN Return(data)
    ELSE Continue

\* lines 348-362, the try block
attempt(text) ==
    LET parsed == JSONparse(unescape(text))
    IN  IF parsed.kind = "throw" THEN parsed ELSE accepted(parsed.value)

\* a catch block that throws the error again
catch_rethrow(outcome) == outcome

\* lines 363-365, the catch block: the error is logged
catch(outcome) ==
    IF outcome.kind = "throw" THEN Continue ELSE outcome

\* what pattern i does: lines 344-366
patternYield(html, i) ==
    IF html[i] = NoMatch THEN Continue ELSE catch(attempt(html[i]))

RECURSIVE extractFrom(_, _)
extractFrom(html, i) ==
    IF i > PatternCount THEN Return(JSNull)
    ELSE IF patternYield(html, i) # Continue THEN patternYield(html, i)
         ELSE extractFrom(html, i + 1)

extractCustodyDataFromHTML(html) == extractFrom(html, 1)

-----------------------------------------------------------------------------
(* The handler of GET /api/custody-history/:iicid *)

Json(status, body) == [status |-> status, body |-> body]

\* the two remote endpoints: the GetFormFieldValues API and the iic-info page
apiUrl == "api"

\* a second fetch of the API in place of the page
visorUrl_retry == apiUrl

visorUrl == "page"

invalidIdBody == [error |-> "Invalid IIC ID format"]

timelineBody(o) ==
    [iicId |-> o.iicId,
     totalRecords |-> o.totalRecords,
     records |-> o.records,
     retrievedAt |-> o.retrievedAt,
     currentlyInCustody |-> o.currentlyInCustody]

notFoundBody(id) ==
    [iicId |-> id,
     records |-> <<>>,
     totalRecords |-> 0,
     message |-> "No custody history found for this IIC ID"]

\* an error response without the detail
errorBody_noDetails(details) ==
    [error |-> "Failed to fetch custody history"]

errorBody(details) ==
    [error |-> "Failed to fetch custody history", details |-> details]

\* error.message of new Error(`VISOR returned status ${response.status}`)
statusMessage(status) == [text |-> "VISOR returned status", status |-> status]

\* error.message of the TypeError processCustodyData throws
typeErrorMessage == "Cannot read properties of null"

\* fieldResponses.find(fr => fr.controlDataId === ... && fr.gridResponse)
RECURSIVE find(_)
find(frs) ==
    IF frs = <<>> THEN JSNull
    ELSE IF Head(frs).controlDataId = SubgridId /\ ~Falsy(Head(frs).gridResponse)
         THEN Head(frs)
         ELSE find(Tail(frs))

\* the custody data of the API reply, JSNull when the strategy has none: the
\* fetch rejected (caught), the status is not ok, the body is no JSON or null
\* (caught), or it holds no subgrid with data
apiCustodyData(reply) ==
    IF reply.kind = "reject" THEN JSNull
    ELSE IF ~ok(reply) THEN JSNull
    ELSE IF reply.body = BadJson \/ reply.body = JSNull THEN JSNull
    ELSE IF Falsy(reply.body.fieldResponses) THEN JSNull
    ELSE LET subgridData == find(reply.body.fieldResponses.array)
         IN  IF subgridData # JSNull /\ ~Falsy(subgridData.gridResponse.data)
             THEN subgridData.gridResponse.data
             ELSE JSNull

InitHandler ==
    /\ iicId \in RequestIds
    /\ custodyData = <<>>
    /\ received = <<>>
    /\ result = NoResult
    /\ pc = "request"
    /\ NoRequest

\* lines 232-258: the id is tested and the API fetch issued
HandleRequest ==
    /\ pc = "request"
    /\ IF ~validId(iicId)
       THEN /\ sent' = Append(sent, Json(400, invalidIdBody))
            /\ pc' = "sent"
            /\ UNCHANGED fetched
       ELSE /\ fetched' = Append(fetched, apiUrl)
            /\ pc' = "awaitApi"
            /\ UNCHANGED sent
    /\ UNCHANGED <<iicId, custodyData, received, result, apiReply, pageReply>>

\* lines 260-293: the API fetch settles; its data is processed and sent, or
\* the strategy ends without a response and the page fetch is issued
ApiSettled ==
    /\ pc = "awaitApi"
    /\ \E reply \in ApiReplies, now \in Clock :
          /\ apiReply' = reply
          /\ LET data == apiCustodyData(reply)
             IN  IF data # JSNull
                 THEN LET r == processCustodyData(iicId, data.array, now)
                      IN  /\ received' = data.array
                          /\ custodyData' = r.data
                          /\ result' = r.outcome
                          /\ IF r.outcome.kind = "return"
                             THEN /\ sent' = Append(sent, Json(200, timelineBody(r.outcome)))
                                  /\ pc' = "sent"
                                  /\ UNCHANGED fetched
                             ELSE /\ fetched' = Append(fetched, visorUrl)
                                  /\ pc' = "awaitPage"
                                  /\ UNCHANGED sent
                 ELSE /\ fetched' = Append(fetched, visorUrl)
                      /\ pc' = "awaitPage"
                      /\ UNCHANGED <<custodyData, received, result, sent>>
    /\ UNCHANGED <<iicId, pageReply>>

\* the page fetch settles and an exception leaves the handler uncaught: no
\* response is sent
PageSettled_uncaught ==
    /\ pc = "awaitPage"
    /\ pageReply' \in PageReplies
    /\ pc' = "sent"
    /\ UNCHANGED <<iicId, custodyData, received, result, fetched, apiReply, sent>>

\* lines 295-321: the page fetch settles
PageSettled ==
    /\ pc = "awaitPage"
    /\ \E reply \in PageReplies, now \in Clock :
          /\ pageReply' = reply
          /\ IF reply.kind = "reject"
             THEN /\ sent' = Append(sent, Json(500, errorBody(reply.message)))
                  /\ UNCHANGED <<custodyData, received, result>>
             ELSE IF ~ok(reply)
             THEN /\ sent' = Append(sent, Json(500, errorBody(statusMessage(reply.status))))
                  /\ UNCHANGED <<custodyData, received, result>>
             ELSE LET extracted == extractCustodyDataFromHTML(reply.body)
                      data == extracted.value
                  IN  IF extracted.kind = "throw"
                      THEN /\ sent' = Append(sent, Json(500, errorBody(extracted.error)))
                           /\ UNCHANGED <<custodyData, received, result>>
                      ELSE IF data = JSNull \/ Len(data.array) = 0
                      THEN /\ sent' = Append(sent, Json(200, notFoundBody(iicId)))
                           /\ UNCHANGED <<custodyData, received, result>>
                      ELSE LET r == processCustodyData(iicId, data.array, now)
                           IN  /\ received' = data.array
                               /\ custodyData' = r.data
                               /\ result' = r.outcome
                               /\ sent' = Append(sent,
                                     IF r.outcome.kind = "return"
                                     THEN Json(200, timelineBody(r.outcome))
                                     ELSE Json(500, errorBody(typeErrorMessage)))
    /\ pc' = "sent"
    /\ UNCHANGED <<iicId, fetched, apiReply>>

NextHandler == HandleRequest \/ ApiSettled \/ PageSettled

SpecHandler == InitHandler /\ [][NextHandler]_vars

\* every fetch settles and the continuation of its await then runs
SpecHandlerFair == SpecHandler /\ WF_vars(NextHandler)

-----------------------------------------------------------------------------
(* The timeline computed inside the earlier handlers (server.js 98-154,
   unnamed/part_000 93-147, unnamed/part_001 142-198) *)

\* dateA - dateB < 0 for the elements at i and j
inlineLess(arr, i, j) ==
    LET dateA == IF arr[i].savin_intakedate = JSNull
                 THEN NumZero ELSE newDate(arr[i].savin_intakedate)
        dateB == IF arr[j].savin_intakedate = JSNull
                 THEN NumZero ELSE newDate(arr[j].savin_intakedate)
    IN  NumNegative(NumSub(dateA, dateB))

\* the place the stable sort gives the element at i: behind the elements that
\* compare less and behind the equal ones that stood before it
inlinePlace(arr, i) ==
    1 + Cardinality({j \in 1..Len(arr) :
                        \/ inlineLess(arr, j, i)
                        \/ j < i /\ ~inlineLess(arr, i, j)})

\* custodyData.sort((a, b) => dateA - dateB)
inlineSort(arr) ==
    [k \in 1..Len(arr) |-> arr[CHOOSE i \in 1..Len(arr) : inlinePlace(arr, i) = k]]

inlineCustody(record) ==
    [type |-> "CUSTODY",
     offenderNumber |-> record.idoc_name,
     facility |-> record.idoc_facilityid,
     intakeDate |-> record.savin_intakedate,
     releaseDate |-> record.idoc_releasedate,
     currentlyInCustody |-> record.idoc_releasedate = JSNull]

\* nextIntakeTime - releaseTime
inlineGapMs(record, nextRecord) ==
    NumSub(newDate(nextRecord.savin_intakedate), newDate(record.idoc_releasedate))

\* the gap test without the test of the next record's intake date
inlineGapDue_noIntake(data, i) ==
    /\ i < Len(data)
    /\ data[i].idoc_releasedate # JSNull
    /\ \/ data[i + 1].savin_intakedate = JSNull
       \/ NumPositive(inlineGapMs(data[i], data[i + 1]))

\* i < custodyData.length - 1 && record.idoc_releasedate, then
\* nextRecord.savin_intakedate, then gapMs > 0 (i counts from 1 here)
inlineGapDue(data, i) ==
    /\ i < Len(data)
    /\ data[i].idoc_releasedate # JSNull
    /\ data[i + 1].savin_intakedate # JSNull
    /\ NumPositive(inlineGapMs(data[i], data[i + 1]))

inlineGap(record, nextRecord) ==
    LET gapMs == inlineGapMs(record, nextRecord)
    IN  [type |-> "OUT_OF_CUSTODY",
         durationMs |-> gapMs,
         days |-> NumFloorDiv(gapMs, MsPerDay),
         hours |-> NumMod(gapMs, MsPerDay) \div MsPerHour,
         minutes |-> NumMod(gapMs, MsPerHour) \div MsPerMinute,
         startDate |-> record.idoc_releasedate,
         endDate |-> nextRecord.savin_intakedate]

\* the for loop from index i on; pushedSoFar is processedRecords at that point
RECURSIVE inlineLoop(_, _, _)
inlineLoop(data, i, pushedSoFar) ==
    IF i > Len(data) THEN pushedSoFar
    ELSE LET withCustody == Append(pushedSoFar, inlineCustody(data[i]))
         IN  inlineLoop(data, i + 1,
                 IF inlineGapDue(data, i)
                 THEN Append(withCustody, inlineGap(data[i], data[i + 1]))
                 ELSE withCustody)

\* a null element: the comparator reads a property of it when the array has
\* two or more elements, and the loop does
inlineSortThrows(data) == Len(data) > 1 /\ \E i \in 1..Len(data) : data[i] = JSNull
inlineLoopThrows(data) == \E i \in 1..Len(data) : data[i] = JSNull

\* the statements from the sort to the response object: the array after them
\* and the object, or the TypeError thrown
inlineTimeline(id, data, now) ==
    IF inlineSortThrows(data) \/ inlineLoopThrows(data)
    THEN [data |-> data, outcome |-> TypeError]
    ELSE LET sorted == inlineSort(data)
         IN  [data |-> sorted,
              outcome |-> [kind |-> "return",
                           iicId |-> id,
                           totalRecords |-> Len(sorted),
                           records |-> inlineLoop(sorted, 1, <<>>),
                           retrievedAt |-> now,
                           currentlyInCustody |->
                               Len(sorted) > 0
                                   /\ sorted[Len(sorted)].idoc_releasedate = JSNull]]

\* the statements run on a parsed list
InitInline ==
    /\ iicId \in IicIds
    /\ custodyData \in SeqsUpTo(Elements, MaxRecords)
    /\ received = custodyData
    /\ result = NoResult
    /\ pc = "inline"
    /\ NoRequest

InlineTimeline ==
    /\ pc = "inline"
    /\ \E now \in Clock :
          LET r == inlineTimeline(iicId, custodyData, now)
          IN  /\ custodyData' = r.data
              /\ result' = r.outcome
    /\ pc' = "inlined"
    /\ UNCHANGED <<iicId, received>>
    /\ UNCHANGED requestVars

NextInline == InlineTimeline

SpecInline == InitInline /\ [][NextInline]_vars

-----------------------------------------------------------------------------
(* The earlier handler that scrapes the page only (unnamed/part_000) *)

LegacyPatternCount == 3

\* the patterns of this handler capture unescaped text only
LegacyCaptures == {c \in Captures : c = NoMatch \/ ~c.quoted}

LegacyPages == [1..LegacyPatternCount -> LegacyCaptures]

LegacyPageReplies ==
    {Rejected, Responded(503, JSNull)} \cup {Responded(200, h) : h \in LegacyPages}

\* html.includes('idoc_name') and html.includes('gridResponse')
DebugInfos == [hasIdocName : BOOLEAN, hasGridResponse : BOOLEAN]

legacyNotFoundBody(id, debug) ==
    [iicId |-> id,
     records |-> <<>>,
     message |-> "No custody history found. The VISOR page may have changed format.",
     debug |-> debug]

parseErrorBody(details) ==
    [error |-> "Failed to parse custody data", details |-> details]

\* lines 49-59: a pattern is tried only if the ones before it did not match
RECURSIVE firstMatch(_, _)
firstMatch(html, i) ==
    IF i > LegacyPatternCount THEN NoMatch
    ELSE IF html[i] # NoMatch THEN html[i]
         ELSE firstMatch(html, i + 1)

InitLegacy ==
    /\ iicId \in RequestIds
    /\ custodyData = <<>>
    /\ received = <<>>
    /\ result = NoResult
    /\ pc = "legacyRequest"
    /\ NoRequest

\* lines 16-35: the id is tested and the page fetch issued
LegacyRequest ==
    /\ pc = "legacyRequest"
    /\ IF ~validId(iicId)
       THEN /\ sent' = Append(sent, Json(400, invalidIdBody))
            /\ pc' = "sent"
            /\ UNCHANGED fetched
       ELSE /\ fetched' = Append(fetched, visorUrl)
            /\ pc' = "legacyAwaitPage"
            /\ UNCHANGED sent
    /\ UNCHANGED <<iicId, custodyData, received, result, apiReply, pageReply>>

\* lines 37-158: the page fetch settles
LegacyPageSettled ==
    /\ pc = "legacyAwaitPage"
    /\ \E reply \in LegacyPageReplies, now \in Clock, debug \in DebugInfos :
          /\ pageReply' = reply
          /\ IF reply.kind = "reject"
             THEN /\ sent' = Append(sent, Json(500, errorBody(reply.message)))
                  /\ UNCHANGED <<custodyData, received, result>>
             ELSE IF ~ok(reply)
             THEN /\ sent' = Append(sent, Json(500, errorBody(statusMessage(reply.status))))
                  /\ UNCHANGED <<custodyData, received, result>>
             ELSE LET match == firstMatch(reply.body, 1)
                      parsed == JSONparse(match)
                  IN  IF match = NoMatch
                      THEN /\ sent' = Append(sent, Json(200, legacyNotFoundBody(iicId, debug)))
                           /\ UNCHANGED <<custodyData, received, result>>
                      ELSE IF parsed.kind = "throw"
                      THEN /\ sent' = Append(sent, Json(500, parseErrorBody(parsed.error)))
                           /\ UNCHANGED <<custodyData, received, result>>
                      ELSE LET r == inlineTimeline(iicId, parsed.value.array, now)
                           IN  /\ received' = parsed.value.array
                               /\ custodyData' = r.data
                               /\ result' = r.outcome
                               /\ sent' = Append(sent,
                                     IF r.outcome.kind = "return"
                                     THEN Json(200, timelineBody(r.outcome))
                                     ELSE Json(500, errorBody(typeErrorMessage)))
    /\ pc' = "sent"
    /\ UNCHANGED <<iicId, fetched, apiReply>>

NextLegacy == LegacyRequest \/ LegacyPageSettled

SpecLegacy == InitLegacy /\ [][NextLegacy]_vars

-----------------------------------------------------------------------------
(* Vocabulary of the properties *)

Returned == pc = "done" /\ result.kind = "return"

\* the input holds custody records only
WellFormed == \A i \in 1..Len(received) : received[i] \in RawCustodyRecord

TypeOK ==
    /\ pc \in {"call", "done"}
    /\ result.kind \in {"none", "return", "throw"}
    /\ Len(custodyData) = Len(received)

Present(v) == v # JSNull

\* the instant an ISO-8601 string names, and the order of instants
Instant(s) == ParseDate(s)
Epoch == [d |-> 0, r |-> 0]
Before(a, b) == a.d < b.d \/ (a.d = b.d /\ a.r < b.r)

\* the instant a record is sorted by: its intake date, the epoch when absent
SortInstant(rec) ==
    IF Present(rec.savin_intakedate) THEN Instant(rec.savin_intakedate) ELSE Epoch

IsCustody(e) == e.type = "CUSTODY"
IsGap(e) == e.type = "OUT_OF_CUSTODY"

\* the timeline positions holding CUSTODY entries
CustodyPositions(tl) == {k \in 1..Len(tl) : IsCustody(tl[k])}

\* the timeline position of the i-th CUSTODY entry
CustodyPos(tl, i) ==
    CHOOSE k \in CustodyPositions(tl) :
        Cardinality({j \in CustodyPositions(tl) : j <= k}) = i

\* adjacent pairs (i, i+1) of the sorted list with a positive-duration gap
PositiveGapPairs ==
    {i \in 1..(Len(custodyData) - 1) :
        /\ Present(custodyData[i].idoc_releasedate)
        /\ Present(custodyData[i + 1].savin_intakedate)
        /\ Before(Instant(custodyData[i].idoc_releasedate),
                  Instant(custodyData[i + 1].savin_intakedate))}

\* the instant a duration of x milliseconds after the instant a
Later(a, x) ==
    IF a.r + x.r < 86400000
    THEN [d |-> a.d + x.d, r |-> a.r + x.r]
    ELSE [d |-> a.d + x.d + 1, r |-> a.r + x.r - 86400000]

\* a Number of milliseconds as one integer (small values only)
ToMs(x) == x.d * 86400000 + x.r

-----------------------------------------------------------------------------
(* C1 .. C5 *)

\* C1: for every non-empty input list of records, processCustodyData returns
\* a timeline whose length is the number of input records plus the number of
\* adjacent pairs (i, i+1) of the sorted list where record i has a release
\* date, record i+1 has an intake date and the intake is strictly later.
C1_EntryCount ==
    (pc = "done" /\ WellFormed /\ Len(received) > 0) =>
        /\ result.kind = "return"
        /\ Len(result.records) = Len(received) + Cardinality(PositiveGapPairs)

\* a call that emitted two gaps
C1_Witness ==
    /\ Returned
    /\ Len(received) = 3
    /\ Len(result.records) = 5
    /\ Cardinality(PositiveGapPairs) = 2

\* C2: in every returned timeline the first and the last entry are CUSTODY
\* entries, and every OUT_OF_CUSTODY entry stands between two CUSTODY
\* entries: right behind the one whose release date starts it and right
\* before the next one (so no two OUT_OF_CUSTODY entries are adjacent).
C2_GapPlacement ==
    (Returned /\ Len(received) > 0) =>
        LET tl == result.records
        IN  /\ Len(tl) > 0
            /\ IsCustody(tl[1])
            /\ IsCustody(tl[Len(tl)])
            /\ \A k \in 1..Len(tl) :
                  IsGap(tl[k]) =>
                      /\ 1 < k /\ k < Len(tl)
                      /\ IsCustody(tl[k - 1])
                      /\ IsCustody(tl[k + 1])
                      /\ tl[k].startDate = tl[k - 1].releaseDate
                      /\ tl[k].endDate = tl[k + 1].intakeDate

\* a timeline with a gap between its first two custody entries and none
\* between the last two
C2_Witness ==
    /\ Returned
    /\ Len(result.records) = 4
    /\ IsGap(result.records[2])
    /\ IsCustody(result.records[3])

C4_MissingDateSuppressesGap ==
    (pc = "done" /\ WellFormed) =>
        /\ result.kind = "return"
        /\ Cardinality(CustodyPositions(result.records)) = Len(custodyData)
        /\ \A i \in 1..(Len(custodyData) - 1) :
              (\/ ~Present(custodyData[i].idoc_releasedate)
               \/ ~Present(custodyData[i + 1].savin_intakedate)) =>
                  CustodyPos(result.records, i + 1) = CustodyPos(result.records, i) + 1
        /\ \A k \in 1..(Len(result.records) - 1) :
              (IsCustody(result.records[k]) /\ ~Present(result.records[k].releaseDate))
                  => ~IsGap(result.records[k + 1])

\* a released record (release before the epoch) followed by a record without
\* intake date, and an unreleased record followed by one with an intake date
C4_Witness ==
    /\ Returned
    /\ Len(custodyData) = 3
    /\ Present(custodyData[1].idoc_releasedate)
    /\ Before(Instant(custodyData[1].idoc_releasedate), Epoch)
    /\ ~Present(custodyData[2].savin_intakedate)
    /\ ~Present(custodyData[2].idoc_releasedate)
    /\ Present(custodyData[3].savin_intakedate)
    /\ Len(result.records) = 3

\* C5: every emitted gap decomposes its duration into whole days, remaining
\* hours (0..23) and remaining minutes (0..59), the rest being less than a
\* minute; a gap of 90061000 ms is 1 day, 1 hour, 1 minute.
C5_GapDecomposition ==
    Returned =>
        \A k \in 1..Len(result.records) :
            LET e == result.records[k]
            IN  IsGap(e) =>
                    /\ e.days >= 0
                    /\ e.hours \in 0..23
                    /\ e.minutes \in 0..59
                    /\ e.durationMs.r \in 0..(86400000 - 1)
                    /\ LET rest == e.durationMs.r - (e.hours * 3600000 + e.minutes * 60000)
                       IN  /\ e.durationMs.d = e.days
                           /\ 0 <= rest /\ rest < 60000
                    /\ (e.durationMs.d = 1 /\ ToMs(e.durationMs) = 90061000) =>
                           (e.days = 1 /\ e.hours = 1 /\ e.minutes = 1)

\* a gap of exactly 90061000 ms was emitted
C5_Witness ==
    /\ Returned
    /\ \E k \in 1..Len(result.records) :
          /\ IsGap(result.records[k])
          /\ result.records[k].durationMs.d = 1
          /\ ToMs(result.records[k].durationMs) = 90061000

-----------------------------------------------------------------------------
(* C6 .. C10 *)

\* two records have equal intake dates: the same instant, or both absent
SameIntake(a, b) ==
    \/ ~Present(a.savin_intakedate) /\ ~Present(b.savin_intakedate)
    \/ /\ Present(a.savin_intakedate) /\ Present(b.savin_intakedate)
       /\ Instant(a.savin_intakedate) = Instant(b.savin_intakedate)

Count(seq, x) == Cardinality({i \in 1..Len(seq) : seq[i] = x})

\* C6: processCustodyData orders the records ascending by intake date, and
\* every record without intake date stands before every record with one.
C6_AbsentIntakeFirst ==
    Returned =>
        \A j, k \in 1..Len(custodyData) :
            /\ (/\ j < k
                /\ Present(custodyData[j].savin_intakedate)
                /\ Present(custodyData[k].savin_intakedate)) =>
                   ~Before(Instant(custodyData[k].savin_intakedate),
                           Instant(custodyData[j].savin_intakedate))
            /\ (/\ ~Present(custodyData[j].savin_intakedate)
                /\ Present(custodyData[k].savin_intakedate)) => j < k

\* C7: the sort is stable: the records with one and the same intake date
\* (or all those without intake date) keep the relative order of the input.
C7_StableSort ==
    Returned =>
        \A i \in 1..Len(received) :
            LET SameAsI(rec) == SameIntake(rec, received[i])
            IN  SelectSeq(custodyData, SameAsI) = SelectSeq(received, SameAsI)

\* two different records with equal intake dates behind a record with a later
\* intake date: the sort moves them and has to keep their order
C7_Witness ==
    /\ Returned
    /\ Len(received) = 3
    /\ SameIntake(received[2], received[3])
    /\ received[2] # received[3]
    /\ Before(SortInstant(received[2]), SortInstant(received[1]))
    /\ custodyData = <<received[2], received[3], received[1]>>

\* C8: between two adjacent sorted records there is an OUT_OF_CUSTODY entry
\* exactly when both dates are present and the next intake is strictly later
\* than the release; the entry has durationMs > 0, release + durationMs =
\* next intake, startDate the release date and endDate the next intake date.
C8_PositiveGapsOnly ==
    Returned =>
        LET tl == result.records
        IN  /\ Cardinality(CustodyPositions(tl)) = Len(custodyData)
            /\ \A i \in 1..(Len(custodyData) - 1) :
                  LET a == custodyData[i]
                      b == custodyData[i + 1]
                      p == CustodyPos(tl, i)
                      q == CustodyPos(tl, i + 1)
                  IN  IF i \in PositiveGapPairs
                      THEN /\ q = p + 2
                           /\ IsGap(tl[p + 1])
                           /\ Before(Epoch, tl[p + 1].durationMs)
                           /\ Later(Instant(a.idoc_releasedate), tl[p + 1].durationMs)
                                  = Instant(b.savin_intakedate)
                           /\ tl[p + 1].startDate = a.idoc_releasedate
                           /\ tl[p + 1].endDate = b.savin_intakedate
                      ELSE q = p + 1

\* a back-to-back pair (release = next intake) that emits nothing, followed by
\* a pair with a positive gap
C8_Witness ==
    /\ Returned
    /\ Len(custodyData) = 3
    /\ Present(custodyData[1].idoc_releasedate)
    /\ Present(custodyData[2].savin_intakedate)
    /\ Instant(custodyData[1].idoc_releasedate) = Instant(custodyData[2].savin_intakedate)
    /\ 2 \in PositiveGapPairs
    /\ Len(result.records) = 4
    /\ IsGap(result.records[3])

\* C9: the CUSTODY entries, in output order, are the input records sorted by
\* intake date (absent as the epoch) and mapped one to one, each with
\* currentlyInCustody true iff its release date is absent; totalRecords is
\* the number of input records.
C9_CustodyEntries ==
    (pc = "done" /\ WellFormed) =>
        /\ result.kind = "return"
        /\ result.totalRecords = Len(received)
        /\ \A i \in 1..Len(received) :
              Count(custodyData, received[i]) = Count(received, received[i])
        /\ \A j, k \in 1..Len(custodyData) :
              j < k => ~Before(SortInstant(custodyData[k]), SortInstant(custodyData[j]))
        /\ SelectSeq(result.records, IsCustody) =
              [i \in 1..Len(custodyData) |->
                  [type |-> "CUSTODY",
                   offenderNumber |-> custodyData[i].idoc_name,
                   facility |-> custodyData[i].idoc_facilityid,
                   intakeDate |-> custodyData[i].savin_intakedate,
                   releaseDate |-> custodyData[i].idoc_releasedate,
                   currentlyInCustody |-> ~Present(custodyData[i].idoc_releasedate)]]

\* three records received in descending intake order, one of them unreleased,
\* with a gap in the timeline
C9_Witness ==
    /\ Returned
    /\ Len(received) = 3
    /\ Before(SortInstant(received[3]), SortInstant(received[2]))
    /\ Before(SortInstant(received[2]), SortInstant(received[1]))
    /\ \E i \in 1..3 : ~Present(received[i].idoc_releasedate)
    /\ Len(result.records) > 3

\* C10: for an empty input list processCustodyData raises no exception and
\* returns an empty records list, totalRecords = 0 and currentlyInCustody =
\* false.
C10_EmptyInput ==
    (pc = "done" /\ received = <<>>) =>
        /\ result.kind = "return"
        /\ result.records = <<>>
        /\ result.totalRecords = 0
        /\ result.currentlyInCustody = FALSE

\* the call on the empty list has returned
C10_Witness ==
    /\ Returned
    /\ received = <<>>
    /\ custodyData = <<>>

-----------------------------------------------------------------------------
(* C11, C12 *)

ScenarioA ==
    [idoc_name |-> "A", idoc_facilityid |-> "OSP",
     savin_intakedate |-> Y2020Jan01, idoc_releasedate |-> Y2020Feb01]
ScenarioB ==
    [idoc_name |-> "B", idoc_facilityid |-> "OSP",
     savin_intakedate |-> Y2020Mar01, idoc_releasedate |-> JSNull]

\* C11: for A(intake 2020-01-01, release 2020-02-01) and B(intake 2020-03-01,
\* no release), in either input order, the timeline is exactly CUSTODY A (not
\* in custody), OUT_OF_CUSTODY of 29 days, CUSTODY B (in custody), with
\* totalRecords = 2 and summary currentlyInCustody = true.
C11_Scenario ==
    (pc = "done" /\ received \in {<<ScenarioA, ScenarioB>>, <<ScenarioB, ScenarioA>>}) =>
        /\ result.kind = "return"
        /\ result.totalRecords = 2
        /\ result.currentlyInCustody = TRUE
        /\ result.records =
              << [type |-> "CUSTODY", offenderNumber |-> "A", facility |-> "OSP",
                  intakeDate |-> Y2020Jan01, releaseDate |-> Y2020Feb01,
                  currentlyInCustody |-> FALSE],
                 [type |-> "OUT_OF_CUSTODY", durationMs |-> [d |-> 29, r |-> 0],
                  days |-> 29, hours |-> 0, minutes |-> 0,
                  startDate |-> Y2020Feb01, endDate |-> Y2020Mar01],
                 [type |-> "CUSTODY", offenderNumber |-> "B", facility |-> "OSP",
                  intakeDate |-> Y2020Mar01, releaseDate |-> JSNull,
                  currentlyInCustody |-> TRUE] >>

\* the scenario handed over with B first
C11_Witness ==
    /\ Returned
    /\ received = <<ScenarioB, ScenarioA>>
    /\ custodyData = <<ScenarioA, ScenarioB>>

\* the lists holding the elements of seq in another order
Reorderings(seq) ==
    {[i \in 1..Len(seq) |-> seq[f[i]]] :
        f \in {g \in [1..Len(seq) -> 1..Len(seq)] :
                  \A a, b \in 1..Len(seq) : a # b => g[a] # g[b]}}

PairwiseDistinctIntake(seq) ==
    \A i, j \in 1..Len(seq) : i # j => ~SameIntake(seq[i], seq[j])

PairwiseDistinctSortInstant(seq) ==
    \A i, j \in 1..Len(seq) : i # j => SortInstant(seq[i]) # SortInstant(seq[j])

\* what processCustodyData returns for seq, the clock reading left aside
SameTimeline(seq) ==
    LET o == processCustodyData(iicId, seq, result.retrievedAt).outcome
    IN  /\ o.kind = "return"
        /\ o.records = result.records
        /\ o.totalRecords = result.totalRecords
        /\ o.currentlyInCustody = result.currentlyInCustody

\* C12: the timeline does not depend on the order of the input: any two
\* orderings of the same records with pairwise distinct intake dates give
\* identical records, totalRecords and currentlyInCustody.
C12_OrderIrrelevant ==
    (Returned /\ PairwiseDistinctIntake(received)) =>
        \A seq \in Reorderings(received) : SameTimeline(seq)

\* the same, for records that the comparator tells apart
C12_OrderIrrelevantWithoutTies ==
    (Returned /\ PairwiseDistinctSortInstant(received)) =>
        \A seq \in Reorderings(received) : SameTimeline(seq)

-----------------------------------------------------------------------------
(* extractCustodyData (unnamed/part_001), and the two extractors on their own *)

\* the strings a global match returns
Matches(seq) == [matches |-> seq]

\* Strategy 1 captures an array text that holds an object with "idoc_name"
ControlIdCaptures ==
    {NoMatch, Text(BadJson, FALSE), Text(Arr(<<RecA>>), FALSE),
     Text(Arr(<<RecA, Nameless>>), FALSE), Text(Arr(<<JSNull, RecA>>), FALSE)}

\* Strategy 2 matches array texts
DataArrayMatches ==
    {NoMatch,
     Matches(<<Text(BadJson, FALSE)>>),
     Matches(<<Text(Arr(<<Nameless>>), FALSE)>>),
     Matches(<<Text(Arr(<<RecA>>), FALSE), Text(Arr(<<RecB, RecA>>), FALSE)>>),
     Matches(<<Text(Arr(<<RecB, RecA>>), FALSE), Text(Arr(<<RecA>>), FALSE)>>),
     Matches(<<Text(BadJson, FALSE), Text(Arr(<<RecA>>), FALSE)>>)}

\* Strategy 3 matches escaped object texts
EscapedMatches ==
    {NoMatch,
     Matches(<<Text(BadJson, TRUE)>>),
     Matches(<<Text(Nameless, TRUE)>>),
     Matches(<<Text(RecA, TRUE), Text(BadJson, TRUE)>>),
     Matches(<<Text(RecB, TRUE), Text(RecA, TRUE)>>),
     Matches(<<Text(Nameless, TRUE), Text(RecA, TRUE)>>)}

\* Strategy 4 captures the formData text
FormDataCaptures ==
    {NoMatch, Text(BadJson, FALSE), Text([fieldResponses |-> JSNull], FALSE)}

\* a page: what each strategy of extractCustodyData finds in it
Documents ==
    [s1 : ControlIdCaptures, s2 : DataArrayMatches,
     s3 : EscapedMatches, s4 : FormDataCaptures]

\* lines 20-27: return JSON.parse(match[1]) in a try block
strategy1(html) ==
    IF html.s1 = NoMatch THEN Continue ELSE catch(JSONparse(html.s1))

\* maxLength, the length of longestArray
maxLength(longestArray) ==
    IF longestArray = JSNull THEN 0 ELSE Len(longestArray.array)

\* lines 41-45, the try block of the loop over the matches
candidate(m, longestArray) ==
    LET parsed == JSONparse(m)
    IN  IF parsed.kind = "throw" THEN parsed
        ELSE IF ~IsArray(parsed.value)
                  \/ Len(parsed.value.array) <= maxLength(longestArray)
        THEN Continue
        ELSE IF parsed.value.array[1] = JSNull THEN TypeError
        ELSE IF parsed.value.array[1].idoc_name # "" THEN parsed
        ELSE Continue

\* lines 39-49: the longest array among the matches
RECURSIVE longest(_, _)
longest(ms, longestArray) ==
    IF ms = <<>> THEN longestArray
    ELSE LET c == catch(candidate(Head(ms), longestArray))
         IN  longest(Tail(ms), IF c.kind = "return" THEN c.value ELSE longestArray)

\* lines 33-55
strategy2(html) ==
    IF html.s2 = NoMatch THEN Continue
    ELSE LET longestArray == longest(html.s2.matches, JSNull)
         IN  IF longestArray # JSNull THEN Return(longestArray) ELSE Continue

\* unescaped.map(u => JSON.parse(u)): the values, or the first error
RECURSIVE parseAll(_)
parseAll(us) ==
    IF us = <<>> THEN Return(<<>>)
    ELSE LET h == JSONparse(unescape(Head(us)))
             t == parseAll(Tail(us))
         IN  IF h.kind = "throw" THEN h
             ELSE IF t.kind = "throw" THEN t
             ELSE Return(<<h.value>> \o t.value)

\* lines 63-75, the try block
escaped(ms) ==
    LET parsed == parseAll(ms)
    IN  IF parsed.kind = "throw" THEN parsed
        ELSE LET records == SelectSeq(parsed.value, LAMBDA r : r.idoc_name # "")
             IN  IF Len(records) > 0 THEN Return(Arr(records)) ELSE Continue

\* lines 61-79
strategy3(html) ==
    IF html.s3 = NoMatch THEN Continue ELSE catch(escaped(html.s3.matches))

\* lines 85-100: formData is parsed and its keys are logged
strategy4(html) ==
    IF html.s4 = NoMatch THEN Continue
    ELSE catch(IF JSONparse(html.s4).kind = "throw"
               THEN JSONparse(html.s4)
               ELSE Continue)

extractCustodyData(html) ==
    IF strategy1(html).kind # "continue" THEN strategy1(html)
    ELSE IF strategy2(html).kind # "continue" THEN strategy2(html)
    ELSE IF strategy3(html).kind # "continue" THEN strategy3(html)
    ELSE IF strategy4(html).kind # "continue" THEN strategy4(html)
    ELSE Return(JSNull)

\* an extractor is called on the text of a fetched page
InitExtract ==
    /\ iicId = GoodId
    /\ custodyData = <<>>
    /\ received = <<>>
    /\ result = NoResult
    /\ fetched = <<>>
    /\ apiReply = NoReply
    /\ sent = <<>>
    /\ \/ /\ pc = "extractHTML"
          /\ pageReply \in {Responded(200, h) : h \in HtmlPages}
       \/ /\ pc = "extractData"
          /\ pageReply \in {Responded(200, h) : h \in Documents}

ExtractCustodyDataFromHTML ==
    /\ pc = "extractHTML"
    /\ result' = extractCustodyDataFromHTML(pageReply.body)
    /\ pc' = "extractedHTML"
    /\ UNCHANGED <<iicId, custodyData, received>>
    /\ UNCHANGED requestVars

ExtractCustodyData ==
    /\ pc = "extractData"
    /\ result' = extractCustodyData(pageReply.body)
    /\ pc' = "extractedData"
    /\ UNCHANGED <<iicId, custodyData, received>>
    /\ UNCHANGED requestVars

NextExtract == ExtractCustodyDataFromHTML \/ ExtractCustodyData

SpecExtract == InitExtract /\ [][NextExtract]_vars

-----------------------------------------------------------------------------
(* Several requests under way at once: each variable holds one value per
   request, and the requests interleave where the handler awaits *)

MaxRequests == 2

Requests == 1..MaxRequests

ConcurrentIds == {GoodId, [i \in 1..36 |-> "-"], Not36Chars}

ConcurrentApiReplies ==
    {Rejected,
     Responded(200, [fieldResponses |-> Arr(<<OtherField>>)]),
     Responded(200, [fieldResponses |->
                        Arr(<<OtherField, SubgridField(Arr(<<RecB, RecA>>))>>)])}

ConcurrentPageReplies ==
    {Rejected,
     Responded(503, JSNull),
     Responded(200, [i \in 1..PatternCount |-> NoMatch]),
     Responded(200, [i \in 1..PatternCount |->
                        IF i = 2 THEN Text(Arr(<<RecA>>), FALSE) ELSE NoMatch])}

\* bindings declared outside the handler: every request uses the same ones
scope_module(r) == 1

\* the bindings of an invocation of the handler (iicId, apiResponse,
\* custodyData, response, html, res) are its own
scope(r) == r

InitConcurrent ==
    /\ iicId \in [Requests -> ConcurrentIds]
    /\ custodyData = [r \in Requests |-> <<>>]
    /\ received = [r \in Requests |-> <<>>]
    /\ result = [r \in Requests |-> NoResult]
    /\ pc = [r \in Requests |-> "request"]
    /\ fetched = [r \in Requests |-> <<>>]
    /\ apiReply = [r \in Requests |-> NoReply]
    /\ pageReply = [r \in Requests |-> NoReply]
    /\ sent = [r \in Requests |-> <<>>]

\* lines 232-258 run for request r
RequestArrives(r) ==
    /\ pc[r] = "request"
    /\ IF ~validId(iicId[scope(r)])
       THEN /\ sent' = [sent EXCEPT ![r] = Append(@, Json(400, invalidIdBody))]
            /\ pc' = [pc EXCEPT ![r] = "sent"]
            /\ UNCHANGED fetched
       ELSE /\ fetched' = [fetched EXCEPT ![r] = Append(@, apiUrl)]
            /\ pc' = [pc EXCEPT ![r] = "awaitApi"]
            /\ UNCHANGED sent
    /\ UNCHANGED <<iicId, custodyData, received, result, apiReply, pageReply>>

\* lines 260-293 run for request r
RequestApiSettled(r) ==
    /\ pc[r] = "awaitApi"
    /\ \E reply \in ConcurrentApiReplies, now \in Clock :
          /\ apiReply' = [apiReply EXCEPT ![r] = reply]
          /\ LET data == apiCustodyData(reply)
             IN  IF data # JSNull
                 THEN LET p == processCustodyData(iicId[scope(r)], data.array, now)
                      IN  /\ received' = [received EXCEPT ![r] = data.array]
                          /\ custodyData' = [custodyData EXCEPT ![scope(r)] = p.data]
                          /\ result' = [result EXCEPT ![r] = p.outcome]
                          /\ IF p.outcome.kind = "return"
                             THEN /\ sent' = [sent EXCEPT ![r] =
                                        Append(@, Json(200, timelineBody(p.outcome)))]
                                  /\ pc' = [pc EXCEPT ![r] = "sent"]
                                  /\ UNCHANGED fetched
                             ELSE /\ fetched' = [fetched EXCEPT ![r] = Append(@, visorUrl)]
                                  /\ pc' = [pc EXCEPT ![r] = "awaitPage"]
                                  /\ UNCHANGED sent
                 ELSE /\ fetched' = [fetched EXCEPT ![r] = Append(@, visorUrl)]
                      /\ pc' = [pc EXCEPT ![r] = "awaitPage"]
                      /\ UNCHANGED <<custodyData, received, result, sent>>
    /\ UNCHANGED <<iicId, pageReply>>

\* lines 295-321 run for request r
RequestPageSettled(r) ==
    /\ pc[r] = "awaitPage"
    /\ \E reply \in ConcurrentPageReplies, now \in Clock :
          /\ pageReply' = [pageReply EXCEPT ![r] = reply]
          /\ IF reply.kind = "reject"
             THEN /\ sent' = [sent EXCEPT ![r] =
                        Append(@, Json(500, errorBody(reply.message)))]
                  /\ UNCHANGED <<custodyData, received, result>>
             ELSE IF ~ok(reply)
             THEN /\ sent' = [sent EXCEPT ![r] =
                        Append(@, Json(500, errorBody(statusMessage(reply.status))))]
                  /\ UNCHANGED <<custodyData, received, result>>
             ELSE LET extracted == extractCustodyDataFromHTML(reply.body)
                      data == extracted.value
                  IN  IF extracted.kind = "throw"
                      THEN /\ sent' = [sent EXCEPT ![r] =
                                 Append(@, Json(500, errorBody(extracted.error)))]
                           /\ UNCHANGED <<custodyData, received, result>>
                      ELSE IF data = JSNull \/ Len(data.array) = 0
                      THEN /\ sent' = [sent EXCEPT ![r] =
                                 Append(@, Json(200, notFoundBody(iicId[scope(r)])))]
                           /\ UNCHANGED <<custodyData, received, result>>
                      ELSE LET p == processCustodyData(iicId[scope(r)], data.array, now)
                           IN  /\ received' = [received EXCEPT ![r] = data.array]
                               /\ custodyData' = [custodyData EXCEPT ![scope(r)] = p.data]
                               /\ result' = [result EXCEPT ![r] = p.outcome]
                               /\ sent' = [sent EXCEPT ![r] = Append(@,
                                     IF p.outcome.kind = "return"
                                     THEN Json(200, timelineBody(p.outcome))
                                     ELSE Json(500, errorBody(typeErrorMessage)))]
    /\ pc' = [pc EXCEPT ![r] = "sent"]
    /\ UNCHANGED <<iicId, fetched, apiReply>>

NextConcurrent ==
    \E r \in Requests :
        RequestArrives(r) \/ RequestApiSettled(r) \/ RequestPageSettled(r)

SpecConcurrent == InitConcurrent /\ [][NextConcurrent]_vars

-----------------------------------------------------------------------------
(* The request and its response *)

Answered == pc = "sent"

\* the id consists of exactly 36 hexadecimal digits and hyphens
IdWellFormed == iicId \in [1..36 -> IdChars]

\* the page fetch was answered with a success status
PageFetched == pageReply.kind = "response" /\ pageReply.status \in 200..299

\* the captured text is JSON for a non-empty array that starts with a named
\* record
Usable(capture) ==
    /\ capture # NoMatch
    /\ capture.json # BadJson
    /\ Len(capture.json.array) > 0
    /\ capture.json.array[1] # JSNull
    /\ capture.json.array[1].idoc_name # ""

\* C13: a request whose id is not exactly 36 hexadecimal digits and hyphens
\* (in either case) is answered with the 400 client error and never fetches;
\* a fetch is issued only for an id that passed the test
C13_InvalidIdRejected ==
    /\ fetched # <<>> => IdWellFormed
    /\ Answered /\ ~IdWellFormed =>
          /\ sent = <<Json(400, [error |-> "Invalid IIC ID format"])>>
          /\ fetched = <<>>

C13_Witness ==
    /\ Answered
    /\ Len(iicId) = 37
    /\ Len(sent) = 1 /\ sent[1].status = 400
    /\ fetched = <<>>

\* C14: when the page was fetched with success and no pattern yields data, the
\* request ends with one success response whose records are empty, which
\* carries a message and whose totalRecords is absent or zero
C14_NoDataFound ==
    (/\ Answered
     /\ PageFetched
     /\ \A i \in 1..PatternCount : ~Usable(pageReply.body[i]))
        => /\ Len(sent) = 1
           /\ sent[1].status = 200
           /\ sent[1].body.records = <<>>
           /\ "message" \in DOMAIN sent[1].body
           /\ "error" \notin DOMAIN sent[1].body
           /\ "totalRecords" \in DOMAIN sent[1].body => sent[1].body.totalRecords = 0

C14_Witness ==
    /\ Answered
    /\ PageFetched
    /\ pageReply.body[1] = Text(BadJson, FALSE)
    /\ pageReply.body[2] = Text(Arr(<<Nameless, RecA>>), FALSE)
    /\ pageReply.body[3] = Text(Arr(<<JSNull>>), FALSE)
    /\ pageReply.body[4] = NoMatch
    /\ sent[1].body.message = "No custody history found for this IIC ID"

\* the fetch was answered with a non-success status or failed at network
\* level
Failed(reply) ==
    \/ reply.kind = "reject"
    \/ reply.kind = "response" /\ reply.status \notin 200..299

\* the response is a timeline, built by processCustodyData
TimelineSent ==
    Answered /\ sent[1].status = 200 /\ "retrievedAt" \in DOMAIN sent[1].body

\* the direct API lookup yields a non-empty array
ApiYields ==
    /\ apiReply.kind # "none"
    /\ apiCustodyData(apiReply) # JSNull
    /\ Len(apiCustodyData(apiReply).array) > 0

\* pattern i is the first whose capture is usable
FirstUsable(i) ==
    /\ Usable(pageReply.body[i])
    /\ \A j \in 1..(i - 1) : ~Usable(pageReply.body[j])

\* C15: the strategies are tried in the order API, patterns 1 to 4; the
\* timeline is built from the list of the first one that yields a non-empty
\* array, and the page is fetched only if the API lookup yielded nothing
C15_FirstYieldingStrategy ==
    /\ pc = "awaitPage" \/ pageReply.kind # "none" => ~ApiYields
    /\ TimelineSent =>
          IF ApiYields
          THEN received = apiCustodyData(apiReply).array
          ELSE /\ PageFetched
               /\ \E i \in 1..PatternCount :
                     FirstUsable(i) /\ received = pageReply.body[i].json.array

\* C16: every element of a list handed to processCustodyData is a record with
\* a non-empty idoc_name
C16_AcceptedListShape ==
    result # NoResult =>
        \A i \in 1..Len(received) :
            received[i] # JSNull /\ received[i].idoc_name # ""

\* the one response is the service error with the given detail
ServiceError(detail) ==
    /\ Len(sent) = 1
    /\ sent[1].status = 500
    /\ sent[1].body.error = "Failed to fetch custody history"
    /\ "details" \in DOMAIN sent[1].body
    /\ sent[1].body.details = detail

\* the detail of a failed fetch: the message of the rejection, or the status
FailureDetail(reply) ==
    IF reply.kind = "reject"
    THEN reply.message
    ELSE [text |-> "VISOR returned status", status |-> reply.status]

ParseFails(capture) == capture # NoMatch /\ capture.json = BadJson

\* the capture is usable and holds records only
Processable(capture) ==
    /\ Usable(capture)
    /\ \A k \in 1..Len(capture.json.array) : capture.json.array[k] # JSNull

\* C17: on a page each of whose patterns finds nothing, fails to parse or
\* yields records, a parse failure is not fatal: the response is no error, and
\* when some pattern yields records the timeline is built from the first such
C17_ParseFailureNonFatal ==
    (/\ Answered
     /\ PageFetched
     /\ \A i \in DOMAIN pageReply.body :
           \/ pageReply.body[i] = NoMatch
           \/ ParseFails(pageReply.body[i])
           \/ Processable(pageReply.body[i]))
        => /\ sent[1].status = 200
           /\ \A j \in DOMAIN pageReply.body :
                 (/\ Processable(pageReply.body[j])
                  /\ \A i \in 1..(j - 1) : ~Processable(pageReply.body[i]))
                    => TimelineSent /\ received = pageReply.body[j].json.array

\* C18: whatever the page holds, an extractor returns to its caller, and what
\* it returns is null or a non-empty list
C18_ExtractorTotal ==
    pc \in {"extractedHTML", "extractedData"} =>
        /\ result.kind = "return"
        /\ \/ result.value = JSNull
           \/ IsArray(result.value) /\ Len(result.value.array) > 0

C18_Witness ==
    /\ pc = "extractedHTML"
    /\ pageReply.body[1] = Text(BadJson, FALSE)
    /\ pageReply.body[2] = Text(Arr(<<JSNull>>), FALSE)
    /\ pageReply.body[3] = Text(Arr(<<>>), FALSE)
    /\ pageReply.body[4] = Text(Arr(<<RecB, RecA>>), TRUE)
    /\ result = Return(Arr(<<RecB, RecA>>))

C18_WitnessData ==
    /\ pc = "extractedData"
    /\ pageReply.body.s1 = Text(BadJson, FALSE)
    /\ pageReply.body.s2 = Matches(<<Text(BadJson, FALSE)>>)
    /\ pageReply.body.s3 = Matches(<<Text(RecA, TRUE), Text(BadJson, TRUE)>>)
    /\ result = Return(JSNull)

\* an exception was raised in the API strategy: the fetch rejected, the body
\* was no JSON or null, or processCustodyData threw on the API's data
ApiException ==
    /\ apiReply.kind # "none"
    /\ \/ apiReply.kind = "reject"
       \/ /\ apiReply.status \in 200..299
          /\ \/ apiReply.body = BadJson
             \/ apiReply.body = JSNull
             \/ \E k \in 1..Len(apiReply.body.fieldResponses.array) :
                   LET fr == apiReply.body.fieldResponses.array[k]
                   IN  /\ fr.gridResponse # JSNull
                       /\ fr.gridResponse.data # JSNull
                       /\ \E e \in 1..Len(fr.gridResponse.data.array) :
                             fr.gridResponse.data.array[e] = JSNull

\* an exception was raised after the API strategy: the page fetch failed, or
\* processCustodyData threw on the list extracted from the page
PageException ==
    \/ Failed(pageReply)
    \/ /\ PageFetched
       /\ \E i \in 1..PatternCount :
             /\ FirstUsable(i)
             /\ \E k \in 1..Len(pageReply.body[i].json.array) :
                   pageReply.body[i].json.array[k] = JSNull

\* the one response is a structured error
StructuredError ==
    /\ Len(sent) = 1
    /\ sent[1].status = 500
    /\ "error" \in DOMAIN sent[1].body
    /\ "details" \in DOMAIN sent[1].body

\* at most one response, sent when the request ends
OneResponse ==
    /\ Len(sent) <= 1
    /\ Answered <=> Len(sent) = 1

pageAnswer(id, page, now) ==
    IF page.kind = "none" THEN NoResult
    ELSE IF Failed(page) THEN Json(500, errorBody(FailureDetail(page)))
    ELSE LET extracted == extractCustodyDataFromHTML(page.body)
         IN  IF extracted.value = JSNull
             THEN Json(200, notFoundBody(id))
             ELSE LET p == processCustodyData(id, extracted.value.array, now)
                  IN  IF p.outcome.kind = "return"
                      THEN Json(200, timelineBody(p.outcome))
                      ELSE Json(500, errorBody(typeErrorMessage))

\* the response of a request for id that runs alone and receives the replies
\* api and page
answerAlone(id, api, page, now) ==
    IF id \notin [1..36 -> IdChars]
    THEN Json(400, [error |-> "Invalid IIC ID format"])
    ELSE IF api.kind = "none" THEN NoResult
    ELSE LET data == apiCustodyData(api)
         IN  IF data # JSNull
                /\ processCustodyData(id, data.array, now).outcome.kind = "return"
             THEN Json(200, timelineBody(processCustodyData(id, data.array, now).outcome))
             ELSE pageAnswer(id, page, now)

\* C22: whatever the interleaving, the response of each request is the one it
\* gets when it runs alone with the same replies, and a request that has not
\* received a reply holds nothing written by another
C22_RequestsIndependent ==
    \A r \in Requests :
        /\ pc[r] = "sent" =>
              \E now \in Clock :
                  sent[r] = <<answerAlone(iicId[r], apiReply[r], pageReply[r], now)>>
        /\ pc[r] \in {"request", "awaitApi"} =>
              /\ sent[r] = <<>>
              /\ custodyData[r] = <<>>
              /\ result[r] = NoResult

C22_Witness ==
    /\ pc = <<"sent", "sent">>
    /\ iicId[1] = GoodId /\ iicId[2] # GoodId
    /\ sent[1][1].status = 200 /\ sent[1][1].body.iicId = GoodId
    /\ sent[2][1].status = 200 /\ sent[2][1].body.iicId = iicId[2]
    /\ custodyData[1] = <<RecA, RecB>>
    /\ custodyData[2] = <<RecA>>

\* C23: a success response without records has the not-found shape (a
\* message, no timeline summary), also when the API returns the subgrid with
\* an empty data array
C23_NotFoundShape ==
    (/\ Answered
     /\ sent[1].status = 200
     /\ sent[1].body.records = <<>>)
        => /\ "message" \in DOMAIN sent[1].body
           /\ "retrievedAt" \notin DOMAIN sent[1].body
           /\ "currentlyInCustody" \notin DOMAIN sent[1].body

\* the custody interval of the record, [intake, release] or [intake, unbounded),
\* overlaps the open interval between the gap's startDate and endDate
Covers(rec, gap) ==
    /\ Present(rec.savin_intakedate)
    /\ Before(Instant(rec.savin_intakedate), Instant(gap.endDate))
    /\ \/ ~Present(rec.idoc_releasedate)
       \/ /\ Before(Instant(gap.startDate), Instant(rec.idoc_releasedate))
          /\ ~Before(Instant(rec.idoc_releasedate), Instant(rec.savin_intakedate))

\* C24: no custody interval of an input record overlaps the open interval of
\* an OUT_OF_CUSTODY entry of the timeline
C24_GapsOutOfCustody ==
    (Returned /\ WellFormed) =>
        \A k \in 1..Len(result.records) :
            IsGap(result.records[k]) =>
                \A i \in 1..Len(received) : ~Covers(received[i], result.records[k])

\* C25: after the call the input array holds the records it held before, each
\* as often as before and with every field as it was
C25_InputOnlyReordered ==
    Returned =>
        /\ Len(custodyData) = Len(received)
        /\ \A i \in 1..Len(received) :
              /\ Count(custodyData, received[i]) = Count(received, received[i])
              /\ \E j \in 1..Len(custodyData) :
                    /\ custodyData[j].idoc_name = received[i].idoc_name
                    /\ custodyData[j].idoc_facilityid = received[i].idoc_facilityid
                    /\ custodyData[j].savin_intakedate = received[i].savin_intakedate
                    /\ custodyData[j].idoc_releasedate = received[i].idoc_releasedate

\* three different records that the call has put in another order
C25_Witness ==
    /\ Returned
    /\ Len(received) = 3
    /\ custodyData # received
    /\ received[1] # received[2] /\ received[2] # received[3]
    /\ received[1] # received[3]
    /\ ~Present(received[1].savin_intakedate)

\* C26: on every input list the statements inside the earlier handlers produce
\* the records, the totalRecords and the currentlyInCustody that
\* processCustodyData produces, and throw where it throws
C26_InlineEquivalent ==
    pc = "inlined" =>
        LET o == processCustodyData(iicId, received, result.retrievedAt).outcome
            t == processCustodyData(iicId, received, "").outcome
        IN  IF result.kind = "throw"
            THEN t.kind = "throw"
            ELSE /\ o.kind = "return"
                 /\ o.records = result.records
                 /\ o.totalRecords = result.totalRecords
                 /\ o.currentlyInCustody = result.currentlyInCustody

\* three records out of order, two with equal intake, and a gap in the result
C26_Witness ==
    /\ pc = "inlined"
    /\ result.kind = "return"
    /\ Len(received) = 3
    /\ custodyData # received
    /\ SameIntake(received[1], received[3])
    /\ received[1] # received[3]
    /\ \E k \in 1..Len(result.records) : IsGap(result.records[k])

====
